---------------------------- MODULE Spec2Model ----------------------------
(***************************************************************************)
(* A model of timestamper.py: the chapter reconciler of                    *)
(* get_tracks_from_google, the metadata text codec                         *)
(* (save_metadata_to_file / load_metadata_from_file) and the export loop   *)
(* of main.                                                                *)
(*                                                                         *)
(* Python strings are modelled as sequences of one-character strings, so   *)
(* that strip, split, count and concatenation are computed as Python       *)
(* computes them.                                                          *)
(***************************************************************************)
EXTENDS Integers, Sequences, FiniteSets, TLC

(***************************************************************************)
(* Bounds of the model.                                                    *)
(***************************************************************************)
MaxEntries == 4
MaxSaveTracks == 2
MaxRawLines == 2
MaxTracks == 3
MaxExportOnly == 2
MaxFaults == 2

(***************************************************************************)
(* String helpers (Python str methods).                                    *)
(***************************************************************************)
Quote == "\""
NL == "\n"
Whitespace == {" ", NL, "\t"}

\* str.lstrip(chars): drop leading characters that belong to the set chars
LStripChars(s, chars) ==
    LET keep == {i \in 1..Len(s) : s[i] \notin chars}
    IN  IF keep = {} THEN <<>>
        ELSE SubSeq(s, CHOOSE i \in keep : \A j \in keep : i <= j, Len(s))

\* str.rstrip(chars)
RStripChars(s, chars) ==
    LET keep == {i \in 1..Len(s) : s[i] \notin chars}
    IN  IF keep = {} THEN <<>>
        ELSE SubSeq(s, 1, CHOOSE i \in keep : \A j \in keep : i >= j)

\* str.strip(chars)
StripChars(s, chars) == RStripChars(LStripChars(s, chars), chars)

\* str.strip() with no argument: strips whitespace
Strip(s) == StripChars(s, Whitespace)

\* str.count(c) for a one-character c
Count(s, c) == Cardinality({i \in 1..Len(s) : s[i] = c})

\* the k-th smallest element of a set of numbers
Kth(S, k) == CHOOSE x \in S : Cardinality({y \in S : y <= x}) = k

\* str.split(c) for a one-character separator c
Split(s, c) ==
    LET at == {i \in 1..Len(s) : s[i] = c}
        n == Cardinality(at)
        cut(k) == IF k = 0 THEN 0 ELSE IF k = n + 1 THEN Len(s) + 1 ELSE Kth(at, k)
    IN  [k \in 1..(n + 1) |-> SubSeq(s, cut(k - 1) + 1, cut(k) - 1)]

\* str.startswith(p)
StartsWith(s, p) == Len(s) >= Len(p) /\ SubSeq(s, 1, Len(p)) = p

RECURSIVE Flatten(_)
\* "".join(list)
Flatten(ss) == IF ss = <<>> THEN <<>> ELSE Head(ss) \o Flatten(Tail(ss))

(***************************************************************************)
(* Numbers.  int(value) / 1000 is a number of seconds with three decimal   *)
(* places; it is kept as whole seconds and thousandths.                    *)
(***************************************************************************)
Digits == {"0", "1", "2", "3", "4", "5", "6", "7", "8", "9"}

DigitVal(c) ==
    CASE c = "0" -> 0 [] c = "1" -> 1 [] c = "2" -> 2 [] c = "3" -> 3
      [] c = "4" -> 4 [] c = "5" -> 5 [] c = "6" -> 6 [] c = "7" -> 7
      [] c = "8" -> 8 [] c = "9" -> 9

\* whether int(value) succeeds: an optional sign and at least one digit
IsIntLiteral(value) ==
    LET body == IF value # <<>> /\ Head(value) \in {"-", "+"}
                THEN Tail(value) ELSE value
    IN  body # <<>> /\ \A i \in 1..Len(body) : body[i] \in Digits

RECURSIVE DigitsVal(_, _)
DigitsVal(s, acc) ==
    IF s = <<>> THEN acc ELSE DigitsVal(Tail(s), 10 * acc + DigitVal(Head(s)))

\* int(value), for a value that IsIntLiteral
IntOf(value) ==
    IF Head(value) = "-" THEN 0 - DigitsVal(Tail(value), 0)
    ELSE IF Head(value) = "+" THEN DigitsVal(Tail(value), 0)
    ELSE DigitsVal(value, 0)

\* the Python float n / 1000
PyFloat(n) == [kind |-> "float", sec |-> n \div 1000, frac |-> n % 1000]
\* the Python int n
PyInt(n) == [kind |-> "int", sec |-> n, frac |-> 0]
IsNum(x) == x.kind \in {"int", "float"}
\* Python None
None == [kind |-> "None"]
\* the empty string stored as the end of the last record
EmptyEnd == [kind |-> "str", chars |-> <<>>]

\* milli with a fault: an invalid value counts as 0 instead of None
milliZeroOnError(value) ==
    IF IsIntLiteral(value) THEN PyFloat(IntOf(value)) ELSE PyFloat(0)

\* milli(value): int(value) / 1000, or None on ValueError
milli(value) == IF IsIntLiteral(value) THEN PyFloat(IntOf(value)) ELSE None

\* x == y in Python: an int and a float of the same value are equal
PyEq(x, y) ==
    IF IsNum(x) /\ IsNum(y) THEN x.sec = y.sec /\ x.frac = y.frac ELSE x = y

\* x < y for two numbers
NumLess(x, y) ==
    /\ IsNum(x) /\ IsNum(y)
    /\ \/ x.sec < y.sec
       \/ x.sec = y.sec /\ x.frac < y.frac

(***************************************************************************)
(* State.                                                                  *)
(***************************************************************************)
VARIABLES
    consumed,        \* get_tracks_from_google: the entries of chapters walked so far
    tracks,          \* get_tracks_from_google: tracks
    current_part,    \* get_tracks_from_google: current_part
    last_timestamp,  \* get_tracks_from_google: last_timestamp
    last_name,       \* get_tracks_from_google: last_name
    rpc              \* get_tracks_from_google: "loop" in the for loop, "done" after return

rvars == <<consumed, tracks, current_part, last_timestamp, last_name, rpc>>

VARIABLES
    chapter_separator,  \* args.chapter_separator
    file,               \* the metadata file: whether it exists, and its text
    origin,             \* "none", "saved" (written by save_metadata_to_file) or "raw"
    saved,              \* the arguments of the save_metadata_to_file call that wrote the file
    ld_pc,              \* load_metadata_from_file: "idle", "lines", "returned", "none",
                        \*   "died" (SystemExit from die) or "raised" (IndexError)
    ld_lines,           \* load_metadata_from_file: track_lines
    ld_i,               \* load_metadata_from_file: position of the for loop in track_lines
    ld_tracks,          \* load_metadata_from_file: tracks
    ld_metadata,        \* load_metadata_from_file: metadata
    ld_printed,         \* what print has written
    ld_result           \* the value load_metadata_from_file returned

cvars == <<chapter_separator, file, origin, saved, ld_pc, ld_lines, ld_i,
           ld_tracks, ld_metadata, ld_printed, ld_result>>

VARIABLES
    e_tracks,            \* main: tracks, the chapter list being exported
    dont_skip_existing,  \* args.dont_skip_existing
    export_only,         \* args.export_only of the current run
    outputs,             \* the output files that exist
    partial,             \* the output files that exist and are incomplete
    e_pc,                \* main: "idle" between runs, "loop" at the head of the for
                         \*   loop, "ffmpeg" while subprocess.run is waiting
    e_idx,               \* main: position of the for loop in tracks
    iterator,            \* main: iterator
    exported,            \* main: exported
    skipped,             \* main: skipped
    command,             \* main: command, the last one handed to subprocess.run
    faults               \* interrupts and ffmpeg failures so far

evars == <<e_tracks, dont_skip_existing, export_only, outputs, partial, e_pc,
           e_idx, iterator, exported, skipped, command, faults>>

vars == <<rvars, cvars, evars>>
\* what the steps of one component leave alone
notReconciler == <<cvars, evars>>
notCodec == <<rvars, evars>>
notExport == <<rvars, cvars>>

(***************************************************************************)
(* Inputs of the reconciler: the leaves of the parsed script tree are      *)
(* quoted string literals.                                                 *)
(***************************************************************************)
Q(s) == <<Quote>> \o s \o <<Quote>>

NameOnly == {<<"I">>, <<"J">>}
PartNames == {<<"P">>}
ChapterNames == {<<"C">>}
Tokens == {<<"0">>, <<"5", "0", "0", "0">>, <<"9", "0", "0", "0">>,
           <<"x">>, <<"1", ".", "5">>}
ThirdValues == {<<"7", "0", "0", "0">>}

Entries ==
    {<<>>}
    \cup {<<Q(n)>> : n \in NameOnly}
    \cup {<<Q(n), Q(t)>> : n \in PartNames, t \in Tokens}
    \cup {<<Q(n), Q(t), Q(x)>> : n \in ChapterNames, t \in Tokens, x \in ThirdValues}

\* c.items[i].value.strip('"')
ItemValue(c, i) == StripChars(c[i], {Quote})

\* a record of tracks
Track(name, start, end) == [name |-> name, start |-> start, end |-> end]

(***************************************************************************)
(* get_tracks_from_google, lines 268-319.                                  *)
(***************************************************************************)
RInit ==
    /\ consumed = <<>>
    /\ tracks = <<>>
    /\ current_part = <<>>
    /\ last_timestamp = PyInt(0)
    /\ last_name = <<>>
    /\ rpc = "loop"

\* a and b of one iteration (lines 275-281): "" when the item is missing
EntryA(c) == IF Len(c) >= 1 THEN ItemValue(c, 1) ELSE <<>>
\* EntryB with a fault: the timestamp of a three-value entry read from its last item
EntryBLastItem(c) ==
    IF Len(c) >= 3 THEN ItemValue(c, 3)
    ELSE IF Len(c) >= 2 THEN ItemValue(c, 2) ELSE <<>>

EntryB(c) == IF Len(c) >= 2 THEN ItemValue(c, 2) ELSE <<>>

\* Differs with a fault: every boundary closes a record
DiffersAlways(new, last) == TRUE

\* the test milli(b) != last_timestamp of lines 287 and 298
Differs(new, last) == ~PyEq(new, last)

\* ClosedTrack with a fault: the end kept as the raw string b
ClosedTrackRawEnd(b) ==
    Track(last_name, last_timestamp, [kind |-> "str", chars |-> b])

\* the record appended when a boundary closes the pending chapter
ClosedTrack(b) == Track(last_name, last_timestamp, milli(b))

\* the name of the next chapter after a three-value entry (lines 306-309)
PrefixedName(a) ==
    IF current_part # <<>> THEN current_part \o <<":", " ">> \o a ELSE a

\* FinalTrack with a fault: the end of the last record left as None
FinalTrackNoneEnd == Track(last_name, last_timestamp, None)

\* the record appended after the loop (lines 312-318)
FinalTrack == Track(last_name, last_timestamp, EmptyEnd)

\* the body of the for loop for one entry c
ReconcileEntry(c) ==
    LET item_number == Len(c)
        a == EntryA(c)
        b == EntryB(c)
    IN  CASE item_number = 1 ->
               /\ last_name' = a
               /\ UNCHANGED <<tracks, current_part, last_timestamp>>
          [] item_number = 2 ->
               /\ current_part' = a
               /\ IF Differs(milli(ItemValue(c, 2)), last_timestamp)
                  THEN /\ tracks' = Append(tracks, ClosedTrack(b))
                       /\ last_name' = a
                       /\ last_timestamp' = milli(b)
                  ELSE UNCHANGED <<tracks, last_name, last_timestamp>>
          [] item_number = 3 ->
               /\ tracks' = IF Differs(milli(b), last_timestamp)
                            THEN Append(tracks, ClosedTrack(b)) ELSE tracks
               /\ last_name' = PrefixedName(a)
               /\ last_timestamp' = milli(b)
               /\ UNCHANGED current_part
          [] OTHER ->
               UNCHANGED <<tracks, current_part, last_timestamp, last_name>>

RStep ==
    /\ rpc = "loop"
    /\ Len(consumed) < MaxEntries
    /\ \E c \in Entries :
          /\ ReconcileEntry(c)
          /\ consumed' = Append(consumed, c)
    /\ UNCHANGED <<rpc, notReconciler>>

\* after the loop: the final record, and return
RFinish ==
    /\ rpc = "loop"
    /\ tracks' = Append(tracks, FinalTrack)
    /\ rpc' = "done"
    /\ UNCHANGED <<consumed, current_part, last_timestamp, last_name, notReconciler>>

(***************************************************************************)
(* Formatting of values in an f-string.                                    *)
(***************************************************************************)
Str(chars) == [kind |-> "str", chars |-> chars]

DigitChar(d) == <<"0", "1", "2", "3", "4", "5", "6", "7", "8", "9">>[d + 1]

RECURSIVE NatStr(_)
\* str(n) for n >= 0
NatStr(n) == IF n < 10 THEN <<DigitChar(n)>>
             ELSE Append(NatStr(n \div 10), DigitChar(n % 10))

\* str(n) for an int
IntStr(n) == IF n < 0 THEN <<"-">> \o NatStr(0 - n) ELSE NatStr(n)

\* the decimals of k thousandths: three digits without the trailing zeros,
\* and at least one digit
FracStr(k) ==
    LET three == <<DigitChar(k \div 100), DigitChar((k \div 10) % 10), DigitChar(k % 10)>>
        cut == RStripChars(three, {"0"})
    IN  IF cut = <<>> THEN <<"0">> ELSE cut

\* str(x) for the float x = n / 1000 (repr is positional for 0.001 <= |x| < 1e16)
FloatStr(x) ==
    LET n == x.sec * 1000 + x.frac
        m == IF n < 0 THEN 0 - n ELSE n
    IN  (IF n < 0 THEN <<"-">> ELSE <<>>)
        \o NatStr(m \div 1000) \o <<".">> \o FracStr(m % 1000)

\* f"{v}"
FormatValue(v) ==
    CASE v.kind = "str" -> v.chars
      [] v.kind = "None" -> <<"N", "o", "n", "e">>
      [] v.kind = "int" -> IntStr(v.sec)
      [] v.kind = "float" -> FloatStr(v)

(***************************************************************************)
(* Python dict, insertion-ordered: a sequence of <<key, value>>.           *)
(***************************************************************************)
HasKey(d, k) == \E i \in 1..Len(d) : d[i][1] = k

\* d[k] = v
DictSet(d, k, v) ==
    IF HasKey(d, k)
    THEN [i \in 1..Len(d) |-> IF d[i][1] = k THEN <<k, v>> ELSE d[i]]
    ELSE Append(d, <<k, v>>)

(***************************************************************************)
(* save_metadata_to_file, lines 164-192.                                   *)
(***************************************************************************)
MarkerLine ==
    <<"#", " ", "A", "u", "t", "o", "m", "a", "t", "i", "c", "a", "l", "l", "y", " ",
      "c", "r", "e", "a", "t", "e", "d", " ", "u", "s", "i", "n", "g", " ",
      "t", "i", "m", "e", "s", "t", "a", "m", "p", "e", "r", NL>>

\* f"# Source: {source}\n" if source else ""
SourceLine(source) ==
    IF source # <<>>
    THEN <<"#", " ", "S", "o", "u", "r", "c", "e", ":", " ">> \o source \o <<NL>>
    ELSE <<>>

\* f"# @{k}{args.chapter_separator}{v}\n"
HeaderLine(kv) ==
    <<"#", " ", "@">> \o kv[1] \o <<chapter_separator>> \o kv[2] \o <<NL>>

\* f"{t.get('name')}{args.chapter_separator}{t.get('start')}|{t.get('end')}\n"
ChapterLine(t) ==
    t.name \o <<chapter_separator>> \o FormatValue(t.start) \o <<"|">>
    \o FormatValue(t.end) \o <<NL>>

\* the text written by fp.writelines
SaveText(ts, md, source) ==
    MarkerLine \o SourceLine(source)
    \o Flatten([i \in 1..Len(md) |-> HeaderLine(md[i])])
    \o Flatten([i \in 1..Len(ts) |-> ChapterLine(ts[i])])

(***************************************************************************)
(* load_metadata_from_file, lines 195-237.                                 *)
(***************************************************************************)
\* fp.readlines(): the lines, each with its line end
ReadLines(text) ==
    LET ends == {i \in 1..Len(text) : text[i] = NL \/ i = Len(text)}
        n == Cardinality(ends)
        cut(k) == IF k = 0 THEN 0 ELSE Kth(ends, k)
    IN  [k \in 1..n |-> SubSeq(text, cut(k - 1) + 1, cut(k))]

\* line.startswith("# @")
IsHeaderLine(line) == StartsWith(line, <<"#", " ", "@">>)

\* line.lstrip("# @").split(args.chapter_separator)
HeaderParts(line) == Split(LStripChars(line, {"#", " ", "@"}), chapter_separator)

\* line.startswith("#") or not len(line.strip())
IsIgnoredLine(line) == StartsWith(line, <<"#">>) \/ Len(Strip(line)) = 0

\* WrongSeparatorCount with a fault: the separator must occur once
WrongSeparatorCountOnce(line) == Count(line, chapter_separator) # 1

\* line.count(args.chapter_separator) != 2
WrongSeparatorCount(line) == Count(line, chapter_separator) # 2

IgnoredMessage(line) == [fmt |-> "Ignored malformed line: {line}", line |-> line]
DieMessage(line) ==
    [fmt |-> "Line \"{line}\" does not contain the chapter-name/time separator \"{chapter_separator}\" (only) once.",
     line |-> line]

NoResult == [returned |-> FALSE, tracks |-> <<>>, metadata |-> <<>>]

\* lines 204-209: the file is looked up and read
LoadStart ==
    /\ ld_pc = "idle"
    /\ origin # "none"
    /\ IF file.exists
       THEN /\ ld_pc' = "lines"
            /\ ld_lines' = ReadLines(file.text)
       ELSE /\ ld_pc' = "none"
            /\ UNCHANGED ld_lines
    /\ UNCHANGED notCodec
    /\ UNCHANGED <<chapter_separator, file, origin, saved, ld_i, ld_tracks,
                   ld_metadata, ld_printed, ld_result>>

\* lines 227-234: split the line and append the track; parts[2] raises
\* IndexError when the line has fewer than three parts
AppendTrack(line) ==
    LET parts == Split(line, chapter_separator)
    IN  IF Len(parts) < 3
        THEN /\ ld_pc' = "raised"
             /\ UNCHANGED <<ld_tracks, ld_i>>
        ELSE /\ ld_tracks' = Append(ld_tracks,
                                    Track(Strip(parts[1]), Str(Strip(parts[2])),
                                          Str(Strip(parts[3]))))
             /\ ld_i' = ld_i + 1
             /\ UNCHANGED ld_pc

\* one iteration of the for loop of lines 210-234
LoadLine ==
    /\ ld_pc = "lines"
    /\ ld_i <= Len(ld_lines)
    /\ LET line == ld_lines[ld_i]
       IN  IF IsHeaderLine(line)
           THEN IF Len(HeaderParts(line)) # 2
                THEN /\ ld_printed' = Append(ld_printed, IgnoredMessage(line))
                     /\ ld_i' = ld_i + 1
                     /\ UNCHANGED <<ld_pc, ld_tracks, ld_metadata>>
                ELSE /\ ld_metadata' = DictSet(ld_metadata, HeaderParts(line)[1],
                                               Strip(HeaderParts(line)[2]))
                     /\ AppendTrack(line)
                     /\ UNCHANGED ld_printed
           ELSE IF IsIgnoredLine(line)
           THEN /\ ld_i' = ld_i + 1
                /\ UNCHANGED <<ld_pc, ld_tracks, ld_metadata, ld_printed>>
           ELSE IF WrongSeparatorCount(line)
           THEN /\ ld_printed' = Append(ld_printed, DieMessage(line))
                /\ ld_pc' = "died"
                /\ UNCHANGED <<ld_i, ld_tracks, ld_metadata>>
           ELSE /\ AppendTrack(line)
                /\ UNCHANGED <<ld_metadata, ld_printed>>
    /\ UNCHANGED notCodec
    /\ UNCHANGED <<chapter_separator, file, origin, saved, ld_lines, ld_result>>

\* line 235: return (tracks, metadata)
LoadReturn ==
    /\ ld_pc = "lines"
    /\ ld_i > Len(ld_lines)
    /\ ld_pc' = "returned"
    /\ ld_result' = [returned |-> TRUE, tracks |-> ld_tracks, metadata |-> ld_metadata]
    /\ UNCHANGED notCodec
    /\ UNCHANGED <<chapter_separator, file, origin, saved, ld_lines, ld_i,
                   ld_tracks, ld_metadata, ld_printed>>

(***************************************************************************)
(* Inputs of the codec.                                                    *)
(***************************************************************************)
Separators == {"|", ";"}

TrackChoices ==
    { Track(<<"I">>, PyInt(0), PyFloat(5000)),
      Track(<<"P", ":", " ", "C">>, PyFloat(5000), EmptyEnd),
      Track(<<"J">>, Str(<<"9", ".", "0">>), EmptyEnd) }

SeqsUpTo(S, n) == UNION {[1..k -> S] : k \in 0..n}

Title == <<"t", "i", "t", "l", "e">>
MyBook == <<"M", "y", " ", "B", "o", "o", "k">>
MetadataChoices ==
    { <<>>, << <<Title, MyBook>> >>, << <<Title, MyBook>>, <<<<"a">>, <<"b">>>> >> }
SourceChoices == { <<>>, <<"h", "t", "t", "p", ":", "/", "/", "x">> }

\* lines a hand-written metadata file may hold, for the separator sep
RawLines(sep) ==
    { <<"I", sep, "0", sep, "5", NL>>,
      <<"I", sep, "0", NL>>,
      <<"I", sep, "0", sep, "5", sep, "9", NL>>,
      <<"#", " ", "@", "k", sep, "v", NL>>,
      <<"#", " ", "@", "k", NL>>,
      <<"#", " ", "@", "k", sep, "v", sep, "w", NL>>,
      <<"#", " ", "c", NL>>,
      <<" ", NL>> }

NoSave == [tracks |-> <<>>, metadata |-> <<>>, source |-> <<>>]

CInit ==
    /\ chapter_separator \in Separators
    /\ file = [exists |-> FALSE, text |-> <<>>]
    /\ origin = "none"
    /\ saved = NoSave
    /\ ld_pc = "idle"
    /\ ld_lines = <<>>
    /\ ld_i = 1
    /\ ld_tracks = <<>>
    /\ ld_metadata = <<>>
    /\ ld_printed = <<>>
    /\ ld_result = NoResult

\* a call of save_metadata_to_file
Save ==
    /\ origin = "none"
    /\ \E ts \in SeqsUpTo(TrackChoices, MaxSaveTracks), md \in MetadataChoices,
          source \in SourceChoices :
          /\ file' = [exists |-> TRUE, text |-> SaveText(ts, md, source)]
          /\ saved' = [tracks |-> ts, metadata |-> md, source |-> source]
    /\ origin' = "saved"
    /\ UNCHANGED notCodec
    /\ UNCHANGED <<chapter_separator, ld_pc, ld_lines, ld_i, ld_tracks,
                   ld_metadata, ld_printed, ld_result>>

\* the user supplies a metadata file written by hand (--metadata_file)
WriteRaw ==
    /\ origin = "none"
    /\ \E ls \in SeqsUpTo(RawLines(chapter_separator), MaxRawLines) :
          file' = [exists |-> TRUE, text |-> Flatten(ls)]
    /\ origin' = "raw"
    /\ UNCHANGED notCodec
    /\ UNCHANGED <<chapter_separator, saved, ld_pc, ld_lines, ld_i, ld_tracks,
                   ld_metadata, ld_printed, ld_result>>

\* the path given to load_metadata_from_file does not exist
NoFile ==
    /\ origin = "none"
    /\ origin' = "missing"
    /\ UNCHANGED notCodec
    /\ UNCHANGED <<chapter_separator, file, saved, ld_pc, ld_lines, ld_i,
                   ld_tracks, ld_metadata, ld_printed, ld_result>>

(***************************************************************************)
(* The export loop of main, lines 386-448.                                 *)
(***************************************************************************)
\* args.banned_characters (default "/")
banned_characters == {"/"}

\* "".join(char for char in name if char not in args.banned_characters).strip()
Sanitize(name) == Strip(SelectSeq(name, LAMBDA ch : ch \notin banned_characters))

\* destination (lines 394-403): the zero-filled iterator, the sanitized name
\* and the format, in the export folder
Destination(it, name) == [number |-> it, title |-> Sanitize(name)]

\* os.path.exists(destination)
Exists(dest) == dest \in outputs

\* ShouldSkip with a fault: existing output files are not skipped
ShouldSkipNever(dest) == FALSE

\* (not args.dont_skip_existing) and os.path.exists(destination), line 404
ShouldSkip(dest) == ~dont_skip_existing /\ Exists(dest)

NoCommand == [track |-> 0, destination |-> Destination(0, <<>>)]

\* the names of the chapters exported; chapters of the same name differ only
\* in their track number
ExportNames == {<<"I">>}

EInit ==
    /\ e_tracks \in UNION {[1..n -> ExportNames] : n \in 1..MaxTracks}
    /\ dont_skip_existing \in BOOLEAN
    /\ export_only = 0
    /\ outputs = {}
    /\ partial = {}
    /\ e_pc = "idle"
    /\ e_idx = 1
    /\ iterator = 1
    /\ exported = 0
    /\ skipped = 0
    /\ command = NoCommand
    /\ faults = 0

\* a run of main reaches the export loop (lines 386-392)
StartRun ==
    /\ e_pc = "idle"
    /\ export_only' \in 0..MaxExportOnly
    /\ exported' = 0
    /\ skipped' = 0
    /\ iterator' = 1
    /\ e_idx' = 1
    /\ e_pc' = "loop"
    /\ UNCHANGED <<e_tracks, dont_skip_existing, outputs, partial, command, faults>>
    /\ UNCHANGED notExport

\* lines 404-408: the output file exists and is skipped
SkipExisting ==
    /\ e_pc = "loop"
    /\ e_idx <= Len(e_tracks)
    /\ ShouldSkip(Destination(iterator, e_tracks[e_idx]))
    /\ skipped' = skipped + 1
    /\ iterator' = iterator + 1
    /\ e_idx' = e_idx + 1
    /\ UNCHANGED <<e_tracks, dont_skip_existing, export_only, outputs, partial,
                   e_pc, exported, command, faults>>
    /\ UNCHANGED notExport

\* lines 409-433: the command is built and handed to subprocess.run
RunFfmpeg ==
    /\ e_pc = "loop"
    /\ e_idx <= Len(e_tracks)
    /\ ~ShouldSkip(Destination(iterator, e_tracks[e_idx]))
    /\ command' = [track |-> iterator,
                   destination |-> Destination(iterator, e_tracks[e_idx])]
    /\ e_pc' = "ffmpeg"
    /\ UNCHANGED <<e_tracks, dont_skip_existing, export_only, outputs, partial,
                   e_idx, iterator, exported, skipped, faults>>
    /\ UNCHANGED notExport

\* lines 434-442: ffmpeg returned 0, the output file is written
FfmpegSucceeds ==
    /\ e_pc = "ffmpeg"
    /\ outputs' = outputs \cup {command.destination}
    /\ partial' = partial \ {command.destination}
    /\ exported' = exported + 1
    /\ iterator' = iterator + 1
    /\ IF export_only > 0 /\ export_only = exported'
       THEN e_pc' = "idle" /\ UNCHANGED e_idx
       ELSE e_pc' = "loop" /\ e_idx' = e_idx + 1
    /\ UNCHANGED <<e_tracks, dont_skip_existing, export_only, skipped, command, faults>>
    /\ UNCHANGED notExport

\* what a stopped ffmpeg may leave at its destination: nothing new, or an
\* incomplete file
Leftover(dest) ==
    \/ UNCHANGED <<outputs, partial>>
    \/ /\ outputs' = outputs \cup {dest}
       /\ partial' = partial \cup {dest}

\* lines 434-436: ffmpeg returned non-zero, die ends the run
FfmpegFails ==
    /\ e_pc = "ffmpeg"
    /\ faults < MaxFaults
    /\ faults' = faults + 1
    /\ Leftover(command.destination)
    /\ e_pc' = "idle"
    /\ UNCHANGED <<e_tracks, dont_skip_existing, export_only, e_idx, iterator,
                   exported, skipped, command>>
    /\ UNCHANGED notExport

\* lines 444-445: KeyboardInterrupt ends the loop
Interrupt ==
    /\ e_pc \in {"loop", "ffmpeg"}
    /\ faults < MaxFaults
    /\ faults' = faults + 1
    /\ IF e_pc = "ffmpeg"
       THEN Leftover(command.destination)
       ELSE UNCHANGED <<outputs, partial>>
    /\ e_pc' = "idle"
    /\ UNCHANGED <<e_tracks, dont_skip_existing, export_only, e_idx, iterator,
                   exported, skipped, command>>
    /\ UNCHANGED notExport

\* the for loop is exhausted, lines 446-448
EndRun ==
    /\ e_pc = "loop"
    /\ e_idx > Len(e_tracks)
    /\ e_pc' = "idle"
    /\ UNCHANGED <<e_tracks, dont_skip_existing, export_only, outputs, partial,
                   e_idx, iterator, exported, skipped, command, faults>>
    /\ UNCHANGED notExport

(***************************************************************************)
(* Specifications.                                                         *)
(***************************************************************************)
\* the reconciler at rest (after its return)
RIdle ==
    /\ consumed = <<>>
    /\ tracks = <<>>
    /\ current_part = <<>>
    /\ last_timestamp = PyInt(0)
    /\ last_name = <<>>
    /\ rpc = "idle"

\* the codec at rest
CIdle ==
    /\ chapter_separator = "|"
    /\ file = [exists |-> FALSE, text |-> <<>>]
    /\ origin = "none"
    /\ saved = NoSave
    /\ ld_pc = "off"
    /\ ld_lines = <<>>
    /\ ld_i = 1
    /\ ld_tracks = <<>>
    /\ ld_metadata = <<>>
    /\ ld_printed = <<>>
    /\ ld_result = NoResult

\* the export loop at rest
EIdle ==
    /\ e_tracks = <<>>
    /\ dont_skip_existing = FALSE
    /\ export_only = 0
    /\ outputs = {}
    /\ partial = {}
    /\ e_pc = "off"
    /\ e_idx = 1
    /\ iterator = 1
    /\ exported = 0
    /\ skipped = 0
    /\ command = NoCommand
    /\ faults = 0

InitReconciler == RInit /\ CIdle /\ EIdle

RNext == RStep \/ RFinish

SpecReconciler == InitReconciler /\ [][RNext]_vars

InitCodec == CInit /\ RIdle /\ EIdle

CNext == Save \/ WriteRaw \/ NoFile \/ LoadStart \/ LoadLine \/ LoadReturn

SpecCodec == InitCodec /\ [][CNext]_vars

InitExport == EInit /\ RIdle /\ CIdle

ENext ==
    \/ StartRun \/ SkipExisting \/ RunFfmpeg \/ FfmpegSucceeds
    \/ FfmpegFails \/ Interrupt \/ EndRun

\* every started step of main finishes, and main is run again and again;
\* interrupts and ffmpeg failures are not owed
SpecExport ==
    /\ InitExport
    /\ [][ENext]_vars
    /\ WF_vars(StartRun) /\ WF_vars(SkipExisting) /\ WF_vars(RunFfmpeg)
    /\ WF_vars(FfmpegSucceeds) /\ WF_vars(EndRun)

(***************************************************************************)
(* Properties of the reconciler.                                           *)
(***************************************************************************)
RECURSIVE BoundaryTokens(_)
\* the timestamps of the two- and three-value entries of a sequence of entries
BoundaryTokens(cs) ==
    IF cs = <<>> THEN <<>>
    ELSE (IF Len(Head(cs)) \in {2, 3} THEN <<ItemValue(Head(cs), 2)>> ELSE <<>>)
         \o BoundaryTokens(Tail(cs))

\* the entry of the step being taken, when the step is RStep
StepEntry == consumed'[Len(consumed')]
IsRStep == consumed' # consumed
IsBoundaryStep == IsRStep /\ Len(StepEntry) \in {2, 3}

StartsIncreasing ==
    \A i \in 1..(Len(tracks) - 1) : NumLess(tracks[i].start, tracks[i + 1].start)
ClosedPositive ==
    \A i \in 1..Len(tracks) :
        tracks[i].end # EmptyEnd => NumLess(tracks[i].start, tracks[i].end)

\* every timestamp is an integer literal and they arrive in non-decreasing
\* order, starting at or after the initial boundary 0
ArriveInOrder(ts) ==
    /\ \A i \in 1..Len(ts) : IsIntLiteral(ts[i]) /\ IntOf(ts[i]) >= 0
    /\ \A i \in 1..(Len(ts) - 1) : IntOf(ts[i]) <= IntOf(ts[i + 1])

AllIntLiterals(ts) == \A i \in 1..Len(ts) : IsIntLiteral(ts[i])

\* C2 as stated, on integer timestamps: whatever order the timestamps arrive
\* in, the returned list has strictly increasing starts and every closed
\* record has start < end.
C2_OrderedAnyInput ==
    (rpc = "done" /\ AllIntLiterals(BoundaryTokens(consumed)))
        => StartsIncreasing /\ ClosedPositive

\* C2 (amended): when every boundary timestamp is an integer literal and the
\* timestamps arrive in non-decreasing order from the initial boundary 0, the
\* returned list has strictly increasing starts and every closed record has
\* start < end.
C2_OrderedWhenInOrder ==
    (rpc = "done" /\ ArriveInOrder(BoundaryTokens(consumed)))
        => StartsIncreasing /\ ClosedPositive

C2_Witness ==
    /\ rpc = "done"
    /\ BoundaryTokens(consumed)
         = << <<"5", "0", "0", "0">>, <<"5", "0", "0", "0">>, <<"9", "0", "0", "0">> >>
    /\ Len(tracks) = 3

Five == PyFloat(5000)
Nine == PyFloat(9000)

C3_NoZeroLength ==
    \A i \in 1..Len(tracks) : ~PyEq(tracks[i].start, tracks[i].end)
C3_Example ==
    (/\ rpc = "done"
     /\ BoundaryTokens(consumed)
          = << <<"0">>, <<"5", "0", "0", "0">>, <<"5", "0", "0", "0">>,
               <<"9", "0", "0", "0">> >>)
    => /\ Len(tracks) = 3
       /\ PyEq(tracks[1].start, PyInt(0)) /\ tracks[1].end = Five
       /\ tracks[2].start = Five /\ tracks[2].end = Nine
       /\ tracks[3].start = Nine /\ tracks[3].end = EmptyEnd
C3_MergeStep ==
    (IsBoundaryStep /\ PyEq(milli(ItemValue(StepEntry, 2)), last_timestamp))
        => tracks' = tracks

\* C3: a two- or three-value marker whose timestamp equals the running
\* boundary closes no record, no record with start = end is ever emitted, and
\* the boundaries 0, 5000, 5000, 9000 give the closed chapters [0,5) and [5,9)
\* followed by the open record.
C3_Dedup ==
    [](C3_NoZeroLength /\ C3_Example) /\ [][C3_MergeStep]_vars

C3_Witness ==
    /\ rpc = "done"
    /\ BoundaryTokens(consumed)
         = << <<"0">>, <<"5", "0", "0", "0">>, <<"5", "0", "0", "0">>,
              <<"9", "0", "0", "0">> >>
    /\ Len(tracks) = 3

\* what a three-value entry does when its timestamp is ts and its name is nm
ThreeValueEffect(ts, nm) ==
    /\ tracks' = IF ~PyEq(milli(ts), last_timestamp)
                 THEN Append(tracks, Track(last_name, last_timestamp, milli(ts)))
                 ELSE tracks
    /\ last_timestamp' = milli(ts)
    /\ last_name' = IF current_part # <<>>
                    THEN current_part \o <<":", " ">> \o nm ELSE nm

IsInvalidStep == IsBoundaryStep /\ ~IsIntLiteral(ItemValue(StepEntry, 2))

\* C7 as stated: a marker with an invalid timestamp never aborts the
\* reconciler and always closes the pending record, also when the previous
\* boundary came from an invalid timestamp.
C7_InvalidAlwaysCloses ==
    [][IsInvalidStep
         => /\ rpc' = "loop"
            /\ last_timestamp' = None
            /\ tracks' = Append(tracks, Track(last_name, last_timestamp, None))]_vars

\* C7 (amended): a marker with an invalid timestamp never aborts the
\* reconciler and makes the running boundary the null timestamp; it closes
\* the pending record (with a null end) when the previous boundary is a
\* number, and closes nothing when the previous boundary is itself null.
C7_InvalidClosesAfterValid ==
    [][IsInvalidStep
         => /\ rpc' = "loop"
            /\ last_timestamp' = None
            /\ tracks' = IF last_timestamp # None
                         THEN Append(tracks, Track(last_name, last_timestamp, None))
                         ELSE tracks]_vars

C7_Witness ==
    /\ BoundaryTokens(consumed) = << <<"5", "0", "0", "0">>, <<"x">>, <<"1", ".", "5">> >>
    /\ Len(tracks) = 2
    /\ tracks[2].end = None
    /\ last_timestamp = None

NoBoundaryMarker == BoundaryTokens(consumed) = <<>>

\* C8: the returned list is non-empty, its last record has the empty end, the
\* last pending name and the running boundary as start, no other record has
\* the empty end, and without any two- or three-value marker the list is one
\* record starting at 0.
C8_FinalRecord ==
    rpc = "done" =>
        /\ Len(tracks) >= 1
        /\ tracks[Len(tracks)] = Track(last_name, last_timestamp, EmptyEnd)
        /\ \A i \in 1..(Len(tracks) - 1) : tracks[i].end # EmptyEnd
        /\ NoBoundaryMarker => (Len(tracks) = 1 /\ tracks[1].start = PyInt(0))

C8_Witness ==
    /\ rpc = "done"
    /\ Len(tracks) = 3
    /\ tracks[3].name = <<"J">>
    /\ tracks[3].end = EmptyEnd

\* C10: in the list built so far and in the returned list, the end of every
\* record equals the start of the next one, and the first record starts at
\* the initial boundary 0, also when a timestamp is invalid.
C10_Contiguous ==
    /\ \A i \in 1..(Len(tracks) - 1) : tracks[i].end = tracks[i + 1].start
    /\ Len(tracks) >= 1 => PyEq(tracks[1].start, PyInt(0))

C10_Witness ==
    /\ rpc = "done"
    /\ Len(tracks) = 4
    /\ tracks[2].end = None
    /\ tracks[3].start = None
    /\ tracks[3].end = Five

(***************************************************************************)
(* Properties of the metadata codec.                                       *)
(***************************************************************************)
\* a track as load_metadata_from_file should give it back: its values as strings
AsStrings(t) == Track(t.name, Str(FormatValue(t.start)), Str(FormatValue(t.end)))

Occurs(c, chars) == \E i \in 1..Len(chars) : chars[i] = c

\* the separator occurs in no name and no value of the saved arguments
SeparatorFree ==
    /\ \A i \in 1..Len(saved.tracks) :
          /\ ~Occurs(chapter_separator, saved.tracks[i].name)
          /\ ~Occurs(chapter_separator, FormatValue(saved.tracks[i].start))
          /\ ~Occurs(chapter_separator, FormatValue(saved.tracks[i].end))
    /\ \A i \in 1..Len(saved.metadata) :
          /\ ~Occurs(chapter_separator, saved.metadata[i][1])
          /\ ~Occurs(chapter_separator, saved.metadata[i][2])

LoadEnded == ld_pc \in {"returned", "none", "died", "raised"}

\* C1, with the default separator "|": loading a file written by
\* save_metadata_to_file from a non-empty chapter list and any header mapping,
\* the separator occurring in no name or value, returns the same chapter list
\* (values as strings) and the same header mapping.
C1_RoundTrip ==
    (/\ origin = "saved"
     /\ chapter_separator = "|"
     /\ Len(saved.tracks) >= 1
     /\ SeparatorFree
     /\ LoadEnded)
    => /\ ld_pc = "returned"
       /\ ld_result.returned
       /\ ld_result.tracks = [i \in 1..Len(saved.tracks) |-> AsStrings(saved.tracks[i])]
       /\ ld_result.metadata = saved.metadata

\* the line of the step being taken, when the step is LoadLine
CurLine == ld_lines[ld_i]
IsLoadLineStep ==
    /\ ld_pc = "lines"
    /\ ld_i <= Len(ld_lines)
    /\ <<ld_pc, ld_i>>' # <<ld_pc, ld_i>>

IsComment(line) == line # <<>> /\ line[1] = "#"
IsBlank(line) == \A i \in 1..Len(line) : line[i] \in Whitespace

MalformedChapterLine(line) ==
    /\ ~IsBlank(line)
    /\ ~IsComment(line)
    /\ Count(line, chapter_separator) # 2

MalformedHeaderLine(line) ==
    /\ StartsWith(line, <<"#", " ", "@">>)
    /\ Len(Split(LStripChars(line, {"#", " ", "@"}), chapter_separator)) # 2

C5_Step ==
    IsLoadLineStep =>
        /\ MalformedChapterLine(CurLine) =>
              /\ ld_pc' = "died"
              /\ ld_printed' # <<>>
              /\ ld_printed'[Len(ld_printed')].line = CurLine
              /\ ld_result' = NoResult
        /\ MalformedHeaderLine(CurLine) =>
              /\ ld_pc' = "lines"
              /\ ld_i' = ld_i + 1
              /\ ld_tracks' = ld_tracks
              /\ ld_metadata' = ld_metadata

C6_AnySeparator ==
    [][(origin = "saved" /\ IsLoadLineStep /\ ~IsComment(CurLine) /\ SeparatorFree)
         => /\ ld_pc' = "lines"
            /\ Len(ld_tracks) < Len(saved.tracks)
            /\ ld_tracks' = Append(ld_tracks, AsStrings(saved.tracks[Len(ld_tracks) + 1]))]_vars

(***************************************************************************)
(* Properties of the export loop.                                          *)
(***************************************************************************)
SkipEnabled == ~dont_skip_existing
InRun == e_pc \in {"loop", "ffmpeg"}
AllOutputsExist ==
    \A i \in 1..Len(e_tracks) : Destination(i, e_tracks[i]) \in outputs

\* during a run the track number is the position in the list, also in the
\* command handed to ffmpeg, and fewer than export-only files are exported
C9_InRun ==
    InRun =>
        /\ iterator = e_idx
        /\ e_pc = "ffmpeg" =>
              /\ e_idx <= Len(e_tracks)
              /\ command.track = e_idx
              /\ command.destination = Destination(e_idx, e_tracks[e_idx])
        /\ export_only > 0 => exported < export_only

C9_Step ==
    \* chapters are visited one at a time in list order
    /\ InRun => (e_idx' = e_idx \/ e_idx' = e_idx + 1)
    \* a chapter whose output exists is not handed to ffmpeg
    /\ (e_pc = "loop" /\ e_pc' = "ffmpeg") =>
          Destination(e_idx, e_tracks[e_idx]) \notin outputs
    \* a skipped chapter takes its track number and is not counted as exported
    /\ (e_pc = "loop" /\ e_idx <= Len(e_tracks)
          /\ Destination(e_idx, e_tracks[e_idx]) \in outputs /\ e_pc' # "idle")
          => /\ e_pc' = "loop"
             /\ e_idx' = e_idx + 1
             /\ iterator' = iterator + 1
             /\ exported' = exported
    \* the run stops with the export-only-th export
    /\ (exported' # exported /\ InRun /\ export_only > 0 /\ exported' = export_only)
          => e_pc' = "idle"
    \* an output that exists stays as it is
    /\ outputs \subseteq outputs'
    /\ \A d \in outputs : (d \in partial') <=> (d \in partial)

\* C9: with skipping enabled, chapters are visited in list order, an existing
\* output is never handed to ffmpeg and still takes its track number, a run
\* stops after export-only new exports, no existing output is written again,
\* and repeated runs eventually leave an output for every chapter.
C9_Resumable ==
    /\ [](SkipEnabled => C9_InRun)
    /\ [][SkipEnabled => C9_Step]_vars
    /\ (SkipEnabled => <>[]AllOutputsExist)

C9_Witness ==
    /\ SkipEnabled
    /\ Len(e_tracks) = 3
    /\ e_pc = "loop"
    /\ e_idx = 4
    /\ skipped = 3
    /\ exported = 0
    /\ faults >= 1
    /\ partial # {}
    /\ AllOutputsExist
=============================================================================
